---- MODULE Spec2Model ----
(***************************************************************************)
(* NovaSearch (src/nova_search.py): the search orchestrator with its       *)
(* cache, per-provider token buckets and per-provider circuit breakers.    *)
(*                                                                         *)
(* Conventions of the model                                                *)
(*  - a Python str is a sequence of one-character strings;                 *)
(*  - time.time() is the integer variable now (seconds);                   *)
(*  - token counts are kept in units of 1/Scale token, so that the         *)
(*    refill rate 0.5 token/s of duckduckgo is the integer 1;              *)
(*  - md5 is taken to be injective: a cache key is the hashed text itself, *)
(*    the pair <<search_type, query.lower()>>;                             *)
(*  - a provider adapter is an oracle: it raises, or returns a result list *)
(*    that may be empty.                                                   *)
(***************************************************************************)
EXTENDS Integers, Sequences, FiniteSets, TLC

\* ------------------------------------------------------------------ bounds
\* how many times the clock may advance in one behaviour
MaxTicks == 1
\* how many times search() may be called in one behaviour
MaxSearches == 2
\* how many times _check_rate_limit may be called directly in one behaviour
MaxChecks == 3
\* how many times the breaker's two methods may be called directly
MaxBreakerCalls == 6
\* how long the part of a query is that the model varies
MaxTail == 3

\* ------------------------------------------------------- program constants
None == "None"

primary == "brave"
fallback == <<"google", "duckduckgo">>
Providers == {"brave", "google", "duckduckgo"}

Scale == 2
rate_max == [brave |-> 60 * Scale, google |-> 60 * Scale, duckduckgo |-> 30 * Scale]
\* refill_rate 1, 1 and 0.5 token/s, in 1/Scale tokens per second
refill_rate == [brave |-> Scale, google |-> Scale, duckduckgo |-> 1]

max_cache_size == 1000
max_query_length == 500
max_attempts == 3
error_threshold == 5
cooldown == 60

\* the backquote is written "backquote": a string of the model cannot hold it
dangerous == {"<", ">", "\"", "'", "&", ";", "|", "backquote", "$"}
whitespace == {" ", "\t", "\n"}

trending_kw ==
    { <<"n","e","w","s">>, <<"t","o","d","a","y">>, <<"l","a","t","e","s","t">>,
      <<"b","r","e","a","k","i","n","g">>, <<"u","p","d","a","t","e">>,
      <<"2","0","2","4">>, <<"2","0","2","5">>, <<"2","0","2","6">> }
trans_kw ==
    { <<"b","u","y">>, <<"p","r","i","c","e">>, <<"c","o","s","t">>,
      <<"d","i","s","c","o","u","n","t">>, <<"s","a","l","e">>,
      <<"c","h","e","a","p">>, <<"s","h","o","p">> }

intent_ttl == [trending |-> 300, transactional |-> 1800, informational |-> 86400]
cache_ttl == [news |-> 900, general |-> 86400, trending |-> 300, transactional |-> 1800]
default_ttl == 86400

\* ------------------------------------------------------------ pure helpers
\* str.lower() on the letters the model's queries use
LowerChar(c) ==
    CASE c = "A" -> "a" [] c = "B" -> "b" [] c = "C" -> "c" [] c = "N" -> "n"
      [] c = "S" -> "s" [] c = "T" -> "t" [] c = "U" -> "u" [] c = "W" -> "w"
      [] c = "Y" -> "y" [] c = "E" -> "e" [] OTHER -> c

Lower(s) == [i \in 1..Len(s) |-> LowerChar(s[i])]

\* kw in s (substring test)
Contains(s, kw) ==
    \E i \in 0..(Len(s) - Len(kw)) :
        \A j \in 1..Len(kw) : s[i + j] = kw[j]

\* query[:n]
Truncate(s, n) == IF Len(s) <= n THEN s ELSE SubSeq(s, 1, n)

\* query.replace(char, '') for every dangerous char
RemoveDangerous(s) == SelectSeq(s, LAMBDA c : c \notin dangerous)

\* query.strip()
Strip(s) ==
    LET keep == {i \in 1..Len(s) : s[i] \notin whitespace}
    IN  IF keep = {} THEN <<>>
        ELSE LET lo == CHOOSE i \in keep : \A j \in keep : i <= j
                 hi == CHOOSE i \in keep : \A j \in keep : i >= j
             IN  SubSeq(s, lo, hi)

\* a mutant of SanitizeQuery: the strip() of line 134 is left out
SanitizeQuery_NoStrip(q) ==
    IF q = <<>> THEN <<>>
    ELSE RemoveDangerous(Truncate(q, max_query_length))

\* a mutant of SanitizeQuery: the strip() is done before the characters are removed
SanitizeQuery_StripFirst(q) ==
    IF q = <<>> THEN <<>>
    ELSE RemoveDangerous(Strip(Truncate(q, max_query_length)))

\* _sanitize_query
SanitizeQuery(q) ==
    IF q = <<>> THEN <<>>
    ELSE Strip(RemoveDangerous(Truncate(q, max_query_length)))

\* _detect_query_intent
DetectQueryIntent(q) ==
    LET query_lower == Lower(q)
    IN  IF \E kw \in trending_kw : Contains(query_lower, kw) THEN "trending"
        ELSE IF \E kw \in trans_kw : Contains(query_lower, kw) THEN "transactional"
        ELSE "informational"

\* _get_cache_key
GetCacheKey(q, search_type) == <<search_type, Lower(q)>>

\* self.config['cache_ttl'].get(query_type, 86400)
TypeTTL(query_type) ==
    IF query_type \in DOMAIN cache_ttl THEN cache_ttl[query_type] ELSE default_ttl

\* a mutant of IsCacheValid: the comparison of line 189 is turned round
IsCacheValid_Inverted(cached, q, t) ==
    LET age == t - cached.timestamp
        ttl == IF q # <<>> THEN intent_ttl[DetectQueryIntent(q)]
               ELSE TypeTTL(cached.type)
    IN  age > ttl

\* a mutant of IsCacheValid: the TTL is always the one of the entry's type
IsCacheValid_TypeTTL(cached, q, t) ==
    LET age == t - cached.timestamp
        ttl == TypeTTL(cached.type)
    IN  age < ttl

\* _is_cache_valid: cached is a cache entry, q the query handed in (<<>> for none)
IsCacheValid(cached, q, t) ==
    LET age == t - cached.timestamp
        ttl == IF q # <<>> THEN intent_ttl[DetectQueryIntent(q)]
               ELSE TypeTTL(cached.type)
    IN  age < ttl

\* ---------------------------------------------------------------- the cache
\* self.cache is a dict: a sequence of entries in insertion order, one per key
CacheKeys(c) == {c[i].key : i \in 1..Len(c)}
CacheIndex(c, k) == CHOOSE i \in 1..Len(c) : c[i].key = k
CacheGet(c, k) == c[CacheIndex(c, k)]

\* self.cache[key] = entry: an existing key keeps its place in the dict
CachePut(c, e) ==
    IF e.key \in CacheKeys(c)
    THEN [c EXCEPT ![CacheIndex(c, e.key)] = e]
    ELSE Append(c, e)

\* the place of entry i in sorted(..., key=timestamp, reverse=True): the sort is
\* stable, so entries of equal timestamp keep their dict order
SortedRank(c, i) ==
    Cardinality({j \in 1..Len(c) : c[j].timestamp > c[i].timestamp})
    + Cardinality({j \in 1..(i - 1) : c[j].timestamp = c[i].timestamp})
    + 1

\* sorted(self.cache.items(), key=timestamp, reverse=True) over the entries
\* whose timestamp is in T: the newest timestamp first, and under each
\* timestamp its entries in dict order, which is what a stable sort leaves
RECURSIVE SortedGroups(_, _)
SortedGroups(c, T) ==
    IF T = {} THEN <<>>
    ELSE LET newest == CHOOSE t \in T : \A u \in T : u <= t
         IN  SelectSeq(c, LAMBDA e : e.timestamp = newest)
                \o SortedGroups(c, T \ {newest})

SortedCache(c) == SortedGroups(c, {c[i].timestamp : i \in 1..Len(c)})

\* a mutant of EvictCache: the sort of line 77 is ascending
EvictCache_KeepsOldest(c) ==
    IF Len(c) > max_cache_size
    THEN SubSeq(c, 1, max_cache_size)
    ELSE c

\* _evict_cache
EvictCache(c) ==
    IF Len(c) > max_cache_size
    THEN SubSeq(SortedCache(c), 1, max_cache_size)
    ELSE c

\* --------------------------------------------------------- the rate limiter
Min(a, b) == IF a <= b THEN a ELSE b

\* hasattr(self, '_last_refill'): the attribute is created by the first check,
\* which also gives it a key, so it exists exactly when the dict has a key
HasLastRefill(lr) == DOMAIN lr # {}

\* a mutant of Refill: the min() of line 60 is left out
Refill_NoCap(tok, lr, p, t) ==
    IF DOMAIN lr # {}
    THEN LET elapsed == t - (IF p \in DOMAIN lr THEN lr[p] ELSE t)
         IN  tok[p] + elapsed * refill_rate[p]
    ELSE tok[p]

\* lines 57-60: the token count after the refill
Refill(tok, lr, p, t) ==
    IF HasLastRefill(lr)
    THEN LET elapsed == t - (IF p \in DOMAIN lr THEN lr[p] ELSE t)
         IN  Min(rate_max[p], tok[p] + elapsed * refill_rate[p])
    ELSE tok[p]

\* a mutant of RateGranted: line 65 asks for more than one token
RateGranted_Strict(tok, lr, p, t) ==
    IF p \notin DOMAIN rate_max THEN TRUE ELSE Refill(tok, lr, p, t) > Scale

\* lines 65-68: the value _check_rate_limit returns (one token is Scale units)
RateGranted(tok, lr, p, t) ==
    IF p \notin DOMAIN rate_max THEN TRUE ELSE Refill(tok, lr, p, t) >= Scale

\* rl['tokens'] after _check_rate_limit
TokensAfterCheck(tok, lr, p, t) ==
    IF p \notin DOMAIN rate_max THEN tok
    ELSE [tok EXCEPT ![p] = IF RateGranted(tok, lr, p, t)
                            THEN Refill(tok, lr, p, t) - Scale
                            ELSE Refill(tok, lr, p, t)]

\* self._last_refill after _check_rate_limit
LastRefillAfterCheck(lr, p, t) ==
    IF p \notin DOMAIN rate_max THEN lr
    ELSE [q \in DOMAIN lr \cup {p} |-> IF q = p THEN t ELSE lr[q]]

\* ------------------------------------------------------ the circuit breaker
OpenTime(st) == IF "circuit_open_time" \in DOMAIN st THEN st.circuit_open_time ELSE 0

\* the value _is_provider_healthy returns
IsProviderHealthy(stats, p, t) ==
    IF p \notin DOMAIN stats THEN TRUE
    ELSE IF stats[p].circuit_open
         THEN t - OpenTime(stats[p]) > cooldown
         ELSE TRUE

\* a mutant of StatsAfterHealthCheck: the reset of line 285 clears the count too
StatsAfterHealthCheck_ResetsErrors(stats, p, t) ==
    IF p \in DOMAIN stats /\ stats[p].circuit_open /\ t - OpenTime(stats[p]) > cooldown
    THEN [stats EXCEPT ![p].circuit_open = FALSE, ![p].errors = 0]
    ELSE stats

\* self.provider_stats after _is_provider_healthy(p)
StatsAfterHealthCheck(stats, p, t) ==
    IF p \in DOMAIN stats /\ stats[p].circuit_open /\ t - OpenTime(stats[p]) > cooldown
    THEN [stats EXCEPT ![p].circuit_open = FALSE]
    ELSE stats

\* a mutant of RecordProviderError: line 303 opens the circuit one error early
RecordProviderError_Early(stats, p, t) ==
    LET old == IF p \in DOMAIN stats THEN stats[p]
               ELSE [errors |-> 0, circuit_open |-> FALSE]
        n   == old.errors + 1
        new == IF n >= error_threshold - 1
               THEN [errors |-> n, circuit_open |-> TRUE, circuit_open_time |-> t]
               ELSE [old EXCEPT !.errors = n]
    IN  [q \in DOMAIN stats \cup {p} |-> IF q = p THEN new ELSE stats[q]]

\* a mutant of RecordProviderError: line 303 opens the circuit one error late
RecordProviderError_Late(stats, p, t) ==
    LET old == IF p \in DOMAIN stats THEN stats[p]
               ELSE [errors |-> 0, circuit_open |-> FALSE]
        n   == old.errors + 1
        new == IF n > error_threshold
               THEN [errors |-> n, circuit_open |-> TRUE, circuit_open_time |-> t]
               ELSE [old EXCEPT !.errors = n]
    IN  [q \in DOMAIN stats \cup {p} |-> IF q = p THEN new ELSE stats[q]]

\* self.provider_stats after _record_provider_error(p)
RecordProviderError(stats, p, t) ==
    LET old == IF p \in DOMAIN stats THEN stats[p]
               ELSE [errors |-> 0, circuit_open |-> FALSE]
        n   == old.errors + 1
        new == IF n >= error_threshold
               THEN [errors |-> n, circuit_open |-> TRUE, circuit_open_time |-> t]
               ELSE [old EXCEPT !.errors = n]
    IN  [q \in DOMAIN stats \cup {p} |-> IF q = p THEN new ELSE stats[q]]

Errors(stats, p) == IF p \in DOMAIN stats THEN stats[p].errors ELSE 0

\* a mutant of GetProviderOrder: the health check of line 271 is left out
GetProviderOrder_NoHealth(stats, t) == <<primary>> \o fallback

\* _get_provider_order: the list returned
GetProviderOrder(stats, t) ==
    <<primary>> \o SelectSeq(fallback, LAMBDA p : IsProviderHealthy(stats, p, t))

\* self.provider_stats after _get_provider_order: every fallback was health-checked
RECURSIVE StatsAfterOrder(_, _, _)
StatsAfterOrder(stats, i, t) ==
    IF i > Len(fallback) THEN stats
    ELSE StatsAfterOrder(StatsAfterHealthCheck(stats, fallback[i], t), i + 1, t)

\* ------------------------------------------------------------- the adapters
\* the messages of the errors the adapters raise (lines 324, 366, 406)
AdapterError ==
    [brave |-> "Brave API key not configured",
     google |-> "Google API key or CSE ID not configured",
     duckduckgo |-> "HTTPError"]

\* line 232: a str is the left operand of %, which raises for every digest
BackoffError == "not all arguments converted during string formatting"
BackoffRaises(a) == a > 0

\* the result lists an adapter may return
ResultSets == {<<>>, <<"r1">>, <<"r2">>}

\* ------------------------------------------------------------------- inputs
\* the queries handed to search(): empty, blank, made of dangerous characters
\* only, and one that has the trending keyword "news"
Queries ==
    { <<>>, <<" ">>, <<"<", " ", ";">>, <<"N","e","w","s">> }
SearchTypes == {"web"}
ProviderArgs == {None, "google"}
\* the amounts of time that may pass in one step of the clock
Deltas == {61, 300}

\* --------------------------------------------------------------------- state
VARIABLES
    now,            \* time.time()
    ticks,          \* how often the clock has advanced
    calls,          \* how many calls have been made on the instance
    cache,          \* self.cache
    provider_stats, \* self.provider_stats
    tokens,         \* self.rate_limit[p]['tokens']
    last_refill,    \* self._last_refill
    pc,             \* where search() stands: "idle", "loop" or "call"
    args,           \* the last call made, with its arguments
    query,          \* search(): the sanitized query
    providers,      \* search(): providers
    attempt,        \* search(): attempt
    idx,            \* search(): the position of p in providers
    last_error,     \* search(): str(last_error)
    ret,            \* what the last call returned
    pre,            \* the shared state when the last call was made
    log,            \* what the last call did, in order
    threads         \* the threads inside _check_rate_limit: position and locals

vars == <<now, ticks, calls, cache, provider_stats, tokens, last_refill, pc, args,
          query, providers, attempt, idx, last_error, ret, pre, log, threads>>

shared == <<cache, provider_stats, tokens, last_refill>>
locals == <<query, providers, attempt, idx, last_error>>

NoValue == [no_value |-> TRUE]
NoArgs == [op |-> "none", query |-> <<>>, search_type |-> "web", provider |-> None]
Snapshot == [cache |-> cache, provider_stats |-> provider_stats,
             tokens |-> tokens, last_refill |-> last_refill, now |-> now]

EmptyDict == [x \in {} |-> 0]

\* the threads that may call into the instance side by side, none of them
\* inside a call
Threads == {1, 2}
IdleThread == [pc |-> "idle", p |-> None, now |-> 0, elapsed |-> 0, value |-> 0,
               calls |-> 0, result |-> "none"]
NoThreads == [t \in Threads |-> IdleThread]

\* __init__ (lines 17-30): full buckets, and no _last_refill yet
InitFresh ==
    /\ tokens = rate_max
    /\ last_refill = EmptyDict

\* the instance has been used: the buckets of the providers in D were emptied
\* by successful searches at this very time, and clear_cache was called
InitDrained(D) ==
    /\ tokens = [p \in Providers |-> IF p \in D THEN 0 ELSE rate_max[p]]
    /\ last_refill = [p \in D |-> 0]

\* what __init__ and every used instance between calls have in common
InitRest ==
    /\ now = 0
    /\ ticks = 0
    /\ calls = 0
    /\ cache = <<>>
    /\ provider_stats = EmptyDict
    /\ pc = "idle"
    /\ args = NoArgs
    /\ query = <<>>
    /\ providers = <<>>
    /\ attempt = 0
    /\ idx = 0
    /\ last_error = None
    /\ ret = NoValue
    /\ pre = Snapshot
    /\ log = <<>>
    /\ threads = NoThreads

Init ==
    /\ \/ InitFresh
       \/ InitDrained({primary})
       \/ InitDrained(Providers)
    /\ InitRest

\* ------------------------------------------------------------------ search()
CallArgs(q, t, prov) ==
    [op |-> "search", query |-> q, search_type |-> t, provider |-> prov]

\* lines 204-207: the sanitized query is empty
SearchEmptyQuery(q, t, prov) ==
    /\ pc = "idle"
    /\ calls < MaxSearches
    /\ SanitizeQuery(q) = <<>>
    /\ calls' = calls + 1
    /\ args' = CallArgs(q, t, prov)
    /\ pre' = Snapshot
    /\ log' = <<>>
    /\ query' = <<>>
    /\ ret' = [error |-> "Empty query", results |-> <<>>]
    /\ UNCHANGED <<threads, now, ticks, shared, pc, providers, attempt, idx, last_error>>

\* line 211: a valid entry is in the cache
CacheHit(c, sq, t, time) ==
    /\ GetCacheKey(sq, t) \in CacheKeys(c)
    /\ IsCacheValid(CacheGet(c, GetCacheKey(sq, t)), sq, time)

\* a mutant of SearchCacheHit: the provider list is made before the cache is
\* looked at, so the fallbacks are health-checked on a hit as well
SearchCacheHit_OrdersFirst(q, t, prov) ==
    LET sq == SanitizeQuery(q)
        cached == CacheGet(cache, GetCacheKey(sq, t))
    IN  /\ pc = "idle"
        /\ calls < MaxSearches
        /\ sq # <<>>
        /\ CacheHit(cache, sq, t, now)
        /\ calls' = calls + 1
        /\ args' = CallArgs(q, t, prov)
        /\ pre' = Snapshot
        /\ log' = <<>>
        /\ query' = sq
        /\ ret' = [results |-> cached.results, provider |-> cached.provider,
                   cached |-> TRUE, query |-> sq]
        /\ provider_stats' = StatsAfterOrder(provider_stats, 1, now)
        /\ UNCHANGED <<threads, now, ticks, cache, tokens, last_refill, pc,
                       providers, attempt, idx, last_error>>

\* lines 209-217: the valid entry is returned
SearchCacheHit(q, t, prov) ==
    LET sq == SanitizeQuery(q)
        cached == CacheGet(cache, GetCacheKey(sq, t))
    IN  /\ pc = "idle"
        /\ calls < MaxSearches
        /\ sq # <<>>
        /\ CacheHit(cache, sq, t, now)
        /\ calls' = calls + 1
        /\ args' = CallArgs(q, t, prov)
        /\ pre' = Snapshot
        /\ log' = <<>>
        /\ query' = sq
        /\ ret' = [results |-> cached.results, provider |-> cached.provider,
                   cached |-> TRUE, query |-> sq]
        /\ UNCHANGED <<threads, now, ticks, shared, pc, providers, attempt, idx,
                       last_error>>

\* lines 209-223: no valid entry; the provider list is made and the loops start
SearchCacheMiss(q, t, prov) ==
    LET sq == SanitizeQuery(q)
    IN  /\ pc = "idle"
        /\ calls < MaxSearches
        /\ sq # <<>>
        /\ ~CacheHit(cache, sq, t, now)
        /\ calls' = calls + 1
        /\ args' = CallArgs(q, t, prov)
        /\ pre' = Snapshot
        /\ log' = <<>>
        /\ query' = sq
        /\ IF prov # None
           THEN /\ providers' = <<prov>>
                /\ UNCHANGED provider_stats
           ELSE /\ providers' = GetProviderOrder(provider_stats, now)
                /\ provider_stats' = StatsAfterOrder(provider_stats, 1, now)
        /\ last_error' = None
        /\ attempt' = 0
        /\ idx' = 1
        /\ pc' = "loop"
        /\ ret' = NoValue
        /\ UNCHANGED <<threads, now, ticks, cache, tokens, last_refill>>

\* one thing search() did, to provider p in the given attempt
Event(what) == [what |-> what, attempt |-> attempt, p |-> providers[idx]]

\* a mutant of NextIteration: range(3) of line 223 is one attempt too long
NextIteration_FourAttempts(err) ==
    IF idx < Len(providers)
    THEN /\ idx' = idx + 1
         /\ pc' = "loop"
         /\ UNCHANGED <<attempt, ret>>
    ELSE IF attempt + 1 < max_attempts + 1
    THEN /\ attempt' = attempt + 1
         /\ idx' = 1
         /\ pc' = "loop"
         /\ UNCHANGED ret
    ELSE /\ attempt' = 0
         /\ idx' = 0
         /\ pc' = "idle"
         /\ ret' = [error |-> err, query |-> query, results |-> <<>>]

\* the loops of lines 223-224 move on (continue), or end with lines 257-261;
\* err is str(last_error) as the iteration leaves it
NextIteration(err) ==
    IF idx < Len(providers)
    THEN /\ idx' = idx + 1
         /\ pc' = "loop"
         /\ UNCHANGED <<attempt, ret>>
    ELSE IF attempt + 1 < max_attempts
    THEN /\ attempt' = attempt + 1
         /\ idx' = 1
         /\ pc' = "loop"
         /\ UNCHANGED ret
    ELSE /\ attempt' = 0
         /\ idx' = 0
         /\ pc' = "idle"
         /\ ret' = [error |-> err, query |-> query, results |-> <<>>]

\* a mutant of RateDenied: the denial is recorded as an error of p
RateDenied_RecordsError ==
    LET p == providers[idx]
    IN  /\ pc = "loop"
        /\ ~RateGranted(tokens, last_refill, p, now)
        /\ tokens' = TokensAfterCheck(tokens, last_refill, p, now)
        /\ last_refill' = LastRefillAfterCheck(last_refill, p, now)
        /\ provider_stats' = RecordProviderError(provider_stats, p, now)
        /\ log' = Append(log, Event("denied"))
        /\ NextIteration(last_error)
        /\ UNCHANGED <<threads, now, ticks, calls, cache, args, query, providers,
                       last_error, pre>>

\* lines 226-227: the rate limiter denies p
RateDenied ==
    LET p == providers[idx]
    IN  /\ pc = "loop"
        /\ ~RateGranted(tokens, last_refill, p, now)
        /\ tokens' = TokensAfterCheck(tokens, last_refill, p, now)
        /\ last_refill' = LastRefillAfterCheck(last_refill, p, now)
        /\ log' = Append(log, Event("denied"))
        /\ NextIteration(last_error)
        /\ UNCHANGED <<threads, now, ticks, calls, cache, provider_stats, args, query,
                       providers, last_error, pre>>

\* lines 226-233 and 252-255: p is granted, the backoff expression raises, and
\* the handler records the error against p
BackoffFails ==
    LET p == providers[idx]
    IN  /\ pc = "loop"
        /\ RateGranted(tokens, last_refill, p, now)
        /\ BackoffRaises(attempt)
        /\ tokens' = TokensAfterCheck(tokens, last_refill, p, now)
        /\ last_refill' = LastRefillAfterCheck(last_refill, p, now)
        /\ last_error' = BackoffError
        /\ provider_stats' = RecordProviderError(provider_stats, p, now)
        /\ log' = Append(log, Event("backoff_error"))
        /\ NextIteration(BackoffError)
        /\ UNCHANGED <<threads, now, ticks, calls, cache, args, query, providers, pre>>

\* lines 226-235: p is granted and its adapter is called
InvokeAdapter ==
    LET p == providers[idx]
    IN  /\ pc = "loop"
        /\ RateGranted(tokens, last_refill, p, now)
        /\ ~BackoffRaises(attempt)
        /\ tokens' = TokensAfterCheck(tokens, last_refill, p, now)
        /\ last_refill' = LastRefillAfterCheck(last_refill, p, now)
        /\ log' = Append(log, Event("invoked"))
        /\ pc' = "call"
        /\ UNCHANGED <<threads, now, ticks, calls, cache, provider_stats, args,
                       locals, ret, pre>>

\* lines 235 and 252-255: the adapter raises
AdapterRaises ==
    LET p == providers[idx]
    IN  /\ pc = "call"
        /\ last_error' = AdapterError[p]
        /\ provider_stats' = RecordProviderError(provider_stats, p, now)
        /\ log' = Append(log, Event("raised"))
        /\ NextIteration(AdapterError[p])
        /\ UNCHANGED <<threads, now, ticks, calls, cache, tokens, last_refill,
                       args, query,                       providers, pre>>

\* lines 238-243: the entry search() stores
NewEntry(q, t, results, p, time) ==
    [key |-> GetCacheKey(q, t), results |-> results, provider |-> p,
     timestamp |-> time, type |-> t]

\* a mutant of AdapterReturnsEmpty: line 236 tests for the key 'results' only,
\* so the empty response is cached before the loop goes on
AdapterReturnsEmpty_Caches ==
    /\ pc = "call"
    /\ cache' = EvictCache(CachePut(cache,
                    NewEntry(query, args.search_type, <<>>, providers[idx], now)))
    /\ log' = Append(log, Event("empty"))
    /\ NextIteration(last_error)
    /\ UNCHANGED <<threads, now, ticks, calls, provider_stats, tokens, last_refill,
                   args, query, providers, last_error, pre>>

\* lines 235-236: the adapter returns no result; nothing is recorded
AdapterReturnsEmpty ==
    /\ pc = "call"
    /\ log' = Append(log, Event("empty"))
    /\ NextIteration(last_error)
    /\ UNCHANGED <<threads, now, ticks, calls, shared, args, query, providers,
                   last_error, pre>>

\* self.provider_stats after a successful adapter call (lines 236-251)
StatsAfterSuccess(stats, p) == stats

\* lines 235-251: the adapter returns results, which are cached and returned
AdapterReturns(results) ==
    LET p == providers[idx]
    IN  /\ pc = "call"
        /\ results # <<>>
        /\ cache' = EvictCache(CachePut(cache,
                        NewEntry(query, args.search_type, results, p, now)))
        /\ provider_stats' = StatsAfterSuccess(provider_stats, p)
        /\ log' = Append(log, Event("success"))
        /\ ret' = [results |-> results, provider |-> p, cached |-> FALSE,
                   query |-> query]
        /\ pc' = "idle"
        /\ attempt' = 0
        /\ idx' = 0
        /\ UNCHANGED <<threads, now, ticks, calls, tokens, last_refill, args, query,
                       providers, last_error, pre>>

\* clear_cache (lines 459-461)
ClearCache ==
    /\ pc = "idle"
    /\ cache' = <<>>
    /\ args' = [NoArgs EXCEPT !.op = "clear_cache"]
    /\ pre' = Snapshot
    /\ log' = <<>>
    /\ ret' = NoValue
    /\ UNCHANGED <<threads, now, ticks, calls, provider_stats, tokens, last_refill,
                   pc, locals>>

\* time passes between calls
Tick(d) ==
    /\ pc = "idle"
    /\ ticks < MaxTicks
    /\ now' = now + d
    /\ ticks' = ticks + 1
    /\ UNCHANGED <<threads, calls, shared, pc, args, locals, ret, pre, log>>

\* the steps of a search() under way
SearchStep ==
    \/ RateDenied
    \/ BackoffFails
    \/ InvokeAdapter
    \/ AdapterRaises
    \/ AdapterReturnsEmpty
    \/ \E results \in ResultSets : AdapterReturns(results)

Next ==
    \/ \E q \in Queries, t \in SearchTypes, prov \in ProviderArgs :
          \/ SearchEmptyQuery(q, t, prov)
          \/ SearchCacheHit(q, t, prov)
          \/ SearchCacheMiss(q, t, prov)
    \/ SearchStep
    \/ ClearCache
    \/ \E d \in Deltas : Tick(d)

Spec == Init /\ [][Next]_vars

\* ------------------------------------------- search(), with the cache in view
\* two queries of different intent (trending and informational, one of them
\* with a blank and a dangerous character around it), two modes, one provider,
\* and the clock moving to just before and just past the trending TTL
CacheQueries ==
    { <<";">>, <<" ","N","e","w","s","$">>, <<"c","a","t">> }
CacheSearchTypes == {"web", "news"}
CacheProviderArgs == {"google"}
CacheDeltas == {299, 300}

NextCache ==
    \/ \E q \in CacheQueries, t \in CacheSearchTypes, prov \in CacheProviderArgs :
          \/ SearchEmptyQuery(q, t, prov)
          \/ SearchCacheHit(q, t, prov)
          \/ SearchCacheMiss(q, t, prov)
    \/ SearchStep
    \/ ClearCache
    \/ \E d \in CacheDeltas : Tick(d)

SpecCache == Init /\ [][NextCache]_vars

\* --------------------------------- search(), on an instance with a history
\* the instance has answered n searches at time 0 and clear_cache was called;
\* duckduckgo returned results in each, after brave and google had raised in
\* error_threshold - 1 of them and returned nothing in the others: brave and
\* google are one error short of the threshold and every bucket has given n
\* tokens
UsedInstance(n) ==
    /\ tokens = [p \in Providers |-> rate_max[p] - n * Scale]
    /\ last_refill = [p \in Providers |-> 0]
    /\ provider_stats = [p \in {primary, fallback[1]} |->
                            [errors |-> error_threshold - 1, circuit_open |-> FALSE]]

\* four such searches, or as many as the bucket of duckduckgo holds tokens
InitWorn ==
    /\ \/ UsedInstance(error_threshold - 1)
       \/ UsedInstance(rate_max.duckduckgo \div Scale)
    /\ now = 0
    /\ ticks = 0
    /\ calls = 0
    /\ cache = <<>>
    /\ pc = "idle"
    /\ args = NoArgs
    /\ query = <<>>
    /\ providers = <<>>
    /\ attempt = 0
    /\ idx = 0
    /\ last_error = None
    /\ ret = NoValue
    /\ pre = Snapshot
    /\ log = <<>>
    /\ threads = NoThreads

WornQueries == { <<" ">>, <<"N","e","w","s">> }
WornProviderArgs == {None, "google", "duckduckgo"}
WornDeltas == {60, 61}

NextWorn ==
    \/ \E q \in WornQueries, t \in SearchTypes, prov \in WornProviderArgs :
          \/ SearchEmptyQuery(q, t, prov)
          \/ SearchCacheHit(q, t, prov)
          \/ SearchCacheMiss(q, t, prov)
    \/ SearchStep
    \/ \E d \in WornDeltas : Tick(d)

SpecWorn == InitWorn /\ [][NextWorn]_vars

\* search() runs in the thread of its caller: every step follows the one before
\* it, and an adapter returns or raises (its requests carry a timeout)
SpecWornFair == SpecWorn /\ WF_vars(SearchStep)

\* ---------------------------------------- search(), with the cache filled up
\* the queries of the entries _load_cache_from_disk (lines 32-39) finds in the
\* file an earlier run has written: "q000", "q001", ...
Digits == <<"0", "1", "2", "3", "4", "5", "6", "7", "8", "9">>
StoredQuery(i) ==
    <<"q", Digits[((i \div 100) % 10) + 1], Digits[((i \div 10) % 10) + 1],
      Digits[(i % 10) + 1]>>

\* n entries in the order they were stored, `rate' of them in every second
LoadedCache(n, rate) ==
    [i \in 1..n |->
        NewEntry(StoredQuery(i - 1), "web", <<"r1">>, "google", (i - 1) \div rate)]

\* __init__ with a cache file that is full, or one entry short of it, written
\* over four readings of the clock, or full and written by runs that all read
\* the same time; the clock stands at the reading the last entry was stored at
InitLoaded ==
    /\ \/ \E n \in {max_cache_size - 1, max_cache_size} :
             cache = LoadedCache(n, max_cache_size \div 4)
       \/ cache = LoadedCache(max_cache_size, max_cache_size)
    /\ now = cache[Len(cache)].timestamp
    /\ tokens = rate_max
    /\ last_refill = EmptyDict
    /\ provider_stats = EmptyDict
    /\ ticks = 0
    /\ calls = 0
    /\ pc = "idle"
    /\ args = NoArgs
    /\ query = <<>>
    /\ providers = <<>>
    /\ attempt = 0
    /\ idx = 0
    /\ last_error = None
    /\ ret = NoValue
    /\ pre = Snapshot
    /\ log = <<>>
    /\ threads = NoThreads

\* a query that is stored, and one that is not
EvictQueries == { StoredQuery(0), <<"c","a","t">> }
\* the TTL of an informational query: the stored entries expire
EvictDeltas == {86400}

\* the buckets are full, so _check_rate_limit denies nobody in these searches
NextEvict ==
    \/ \E q \in EvictQueries, t \in SearchTypes, prov \in CacheProviderArgs :
          \/ SearchCacheHit(q, t, prov)
          \/ SearchCacheMiss(q, t, prov)
    \/ BackoffFails
    \/ InvokeAdapter
    \/ AdapterRaises
    \/ AdapterReturnsEmpty
    \/ \E results \in ResultSets : AdapterReturns(results)
    \/ \E d \in EvictDeltas : Tick(d)

SpecEvict == InitLoaded /\ [][NextEvict]_vars

\* ------------------------------------------- _is_cache_valid, called alone
\* the types an entry may have been stored with: the modes of search(), and
\* the keys of the cache_ttl table
EntryTypes == {"web", "news", "general", "trending", "transactional"}

\* one entry was stored at time 0
InitValid ==
    /\ InitFresh
    /\ \E t \in EntryTypes :
          cache = <<NewEntry(<<"c","a","t">>, t, <<"r1">>, primary, 0)>>
    /\ now = 0
    /\ ticks = 0
    /\ calls = 0
    /\ provider_stats = EmptyDict
    /\ pc = "idle"
    /\ args = NoArgs
    /\ query = <<>>
    /\ providers = <<>>
    /\ attempt = 0
    /\ idx = 0
    /\ last_error = None
    /\ ret = NoValue
    /\ pre = Snapshot
    /\ log = <<>>
    /\ threads = NoThreads

\* _is_cache_valid(self.cache[key], q), lines 170-189
CheckCacheValid(q) ==
    /\ pc = "idle"
    /\ calls < MaxChecks
    /\ calls' = calls + 1
    /\ args' = [op |-> "is_cache_valid", query |-> q, search_type |-> cache[1].type,
                provider |-> None]
    /\ pre' = Snapshot
    /\ ret' = [valid |-> IsCacheValid(cache[1], q, now)]
    /\ log' = <<>>
    /\ UNCHANGED <<threads, now, ticks, shared, pc, locals>>

\* no query, and queries with a trending keyword, a transactional keyword,
\* both, and neither
ValidQueries ==
    { <<>>, <<"N","e","w","s">>, <<"b","u","y">>,
      <<"b","u","y"," ","n","e","w","s">>, <<"c","a","t">> }
\* the ages around every TTL
ValidDeltas == {299, 300, 301, 899, 900, 1799, 1800, 86399, 86400}

NextValid ==
    \/ \E q \in ValidQueries : CheckCacheValid(q)
    \/ \E d \in ValidDeltas : Tick(d)

SpecValid == InitValid /\ [][NextValid]_vars

\* ------------------------------------------- _sanitize_query, called alone
\* a letter, a blank and a dangerous character
SanitizeAlphabet == {"a", " ", "<"}
Tails == UNION {[1..n -> SanitizeAlphabet] : n \in 0..MaxTail}
\* a run of letters that ends two characters before max_query_length
Padding == [i \in 1..(max_query_length - 2) |-> "a"]
\* short queries, and queries that end around character max_query_length
SanitizeInputs == Tails \cup {Padding \o tail : tail \in Tails}

InitSanitize ==
    /\ InitFresh
    /\ \E q \in SanitizeInputs : args = [NoArgs EXCEPT !.op = "sanitize_query",
                                                       !.query = q]
    /\ now = 0
    /\ ticks = 0
    /\ calls = 0
    /\ cache = <<>>
    /\ provider_stats = EmptyDict
    /\ pc = "idle"
    /\ query = <<>>
    /\ providers = <<>>
    /\ attempt = 0
    /\ idx = 0
    /\ last_error = None
    /\ ret = NoValue
    /\ pre = Snapshot
    /\ log = <<>>
    /\ threads = NoThreads

\* _sanitize_query (lines 123-134) is given the query, and then what it returned
Sanitize ==
    /\ calls < MaxChecks
    /\ calls' = calls + 1
    /\ query' = SanitizeQuery(IF calls = 0 THEN args.query ELSE query)
    /\ log' = Append(log, SanitizeQuery(IF calls = 0 THEN args.query ELSE query))
    /\ UNCHANGED <<threads, now, ticks, shared, pc, args, providers, attempt, idx,
                   last_error, ret, pre>>

NextSanitize == Sanitize

SpecSanitize == InitSanitize /\ [][NextSanitize]_vars

\* ------------------------------------------- the rate limiter, called alone
\* the seconds since the last refill of p's bucket, -1 when there was none
SinceRefill(p) == IF p \in DOMAIN last_refill THEN now - last_refill[p] ELSE -1

OtherArgs(op, p) == [op |-> op, query |-> <<>>, search_type |-> "web", provider |-> p]

\* _check_rate_limit(p), lines 50-68
CheckRateLimit(p) ==
    /\ pc = "idle"
    /\ calls < MaxChecks
    /\ calls' = calls + 1
    /\ args' = OtherArgs("check_rate_limit", p)
    /\ pre' = Snapshot
    /\ tokens' = TokensAfterCheck(tokens, last_refill, p, now)
    /\ last_refill' = LastRefillAfterCheck(last_refill, p, now)
    /\ ret' = [granted |-> RateGranted(tokens, last_refill, p, now)]
    /\ log' = Append(log, [what |-> "check", p |-> p, time |-> now,
                           before |-> tokens[p], since |-> SinceRefill(p),
                           granted |-> RateGranted(tokens, last_refill, p, now),
                           after |-> TokensAfterCheck(tokens, last_refill, p, now)[p]])
    /\ UNCHANGED <<threads, now, ticks, cache, provider_stats, pc, locals>>

RateDeltas == {1, 2}

NextRate ==
    \/ \E p \in Providers : CheckRateLimit(p)
    \/ \E d \in RateDeltas : Tick(d)

SpecRate == Init /\ [][NextRate]_vars

\* ------------------------------- _check_rate_limit, called by two threads
\* The method takes no lock, so a thread may be suspended between any two of
\* its reads and writes of the instance; every read and every write of
\* rl['tokens'] is a step of its own.  Lines 62-63 are taken as one step: the
\* threads ask for the same provider, for which they write the same entry.
MaxThreadCalls == 1

Running(t) == threads[t].pc # "idle"
SetThread(t, r) == [threads EXCEPT ![t] = r]

\* lines 50-57: the call is made and the clock is read
ThreadCalls(t, p) ==
    /\ pc = "idle"
    /\ ~Running(t)
    /\ threads[t].calls < MaxThreadCalls
    /\ IF \E u \in Threads : Running(u)
       THEN /\ threads' = SetThread(t, [threads[t] EXCEPT
                              !.pc = "l58", !.p = p, !.now = now,
                              !.calls = @ + 1, !.result = "none"])
            /\ UNCHANGED <<args, pre>>
       ELSE /\ threads' = [u \in Threads |->
                              IF u = t
                              THEN [threads[t] EXCEPT
                                       !.pc = "l58", !.p = p, !.now = now,
                                       !.calls = @ + 1, !.result = "none"]
                              ELSE [threads[u] EXCEPT !.result = "none"]]
            /\ args' = OtherArgs("check_rate_limit", p)
            /\ pre' = Snapshot
    /\ UNCHANGED <<now, ticks, calls, shared, pc, locals, ret, log>>

\* line 58: hasattr(self, '_last_refill')
ThreadTestsAttr(t) ==
    /\ threads[t].pc = "l58"
    /\ threads' = SetThread(t, [threads[t] EXCEPT
                      !.pc = IF HasLastRefill(last_refill) THEN "l59" ELSE "l62"])
    /\ UNCHANGED <<now, ticks, calls, shared, pc, args, locals, ret, pre, log>>

\* line 59: elapsed is computed from self._last_refill
ThreadReadsLastRefill(t) ==
    LET me == threads[t]
    IN  /\ me.pc = "l59"
        /\ threads' = SetThread(t, [me EXCEPT
                          !.pc = "l60",
                          !.elapsed = me.now - (IF me.p \in DOMAIN last_refill
                                                THEN last_refill[me.p] ELSE me.now)])
        /\ UNCHANGED <<now, ticks, calls, shared, pc, args, locals, ret, pre, log>>

\* line 60, right-hand side: rl['tokens'] is read and min() is called
ThreadReadsTokens(t) ==
    LET me == threads[t]
    IN  /\ me.pc = "l60"
        /\ threads' = SetThread(t, [me EXCEPT
                          !.pc = "l60w",
                          !.value = Min(rate_max[me.p],
                                        tokens[me.p] + me.elapsed * refill_rate[me.p])])
        /\ UNCHANGED <<now, ticks, calls, shared, pc, args, locals, ret, pre, log>>

\* line 60, the assignment to rl['tokens']
ThreadWritesTokens(t) ==
    LET me == threads[t]
    IN  /\ me.pc = "l60w"
        /\ tokens' = [tokens EXCEPT ![me.p] = me.value]
        /\ threads' = SetThread(t, [me EXCEPT !.pc = "l62"])
        /\ UNCHANGED <<now, ticks, calls, cache, provider_stats, last_refill, pc,
                       args, locals, ret, pre, log>>

\* lines 62-63
ThreadSetsLastRefill(t) ==
    LET me == threads[t]
    IN  /\ me.pc = "l62"
        /\ last_refill' = [q \in DOMAIN last_refill \cup {me.p} |->
                              IF q = me.p THEN me.now ELSE last_refill[q]]
        /\ threads' = SetThread(t, [me EXCEPT !.pc = "l65"])
        /\ UNCHANGED <<now, ticks, calls, cache, provider_stats, tokens, pc,
                       args, locals, ret, pre, log>>

\* lines 65 and 68: the test, and the return of False
ThreadTestsTokens(t) ==
    LET me == threads[t]
    IN  /\ me.pc = "l65"
        /\ threads' = SetThread(t,
                          IF tokens[me.p] >= Scale
                          THEN [me EXCEPT !.pc = "l66"]
                          ELSE [me EXCEPT !.pc = "idle", !.result = "denied"])
        /\ UNCHANGED <<now, ticks, calls, shared, pc, args, locals, ret, pre, log>>

\* line 66, rl['tokens'] -= 1: the read
ThreadReadsToDecrement(t) ==
    LET me == threads[t]
    IN  /\ me.pc = "l66"
        /\ threads' = SetThread(t, [me EXCEPT !.pc = "l66w", !.value = tokens[me.p]])
        /\ UNCHANGED <<now, ticks, calls, shared, pc, args, locals, ret, pre, log>>

\* line 66, the write, and line 67: the return of True
ThreadDecrements(t) ==
    LET me == threads[t]
    IN  /\ me.pc = "l66w"
        /\ tokens' = [tokens EXCEPT ![me.p] = me.value - Scale]
        /\ threads' = SetThread(t, [me EXCEPT !.pc = "idle", !.result = "granted"])
        /\ UNCHANGED <<now, ticks, calls, cache, provider_stats, last_refill, pc,
                       args, locals, ret, pre, log>>

\* time passes while no thread is inside the method
TickThreads(d) ==
    /\ \A t \in Threads : ~Running(t)
    /\ Tick(d)

ThreadProviders == {primary}
ThreadDeltas == {1}

NextThreads ==
    \/ \E t \in Threads :
          \/ \E p \in ThreadProviders : ThreadCalls(t, p)
          \/ ThreadTestsAttr(t)
          \/ ThreadReadsLastRefill(t)
          \/ ThreadReadsTokens(t)
          \/ ThreadWritesTokens(t)
          \/ ThreadSetsLastRefill(t)
          \/ ThreadTestsTokens(t)
          \/ ThreadReadsToDecrement(t)
          \/ ThreadDecrements(t)
    \/ \E d \in ThreadDeltas : TickThreads(d)

SpecThreads == Init /\ [][NextThreads]_vars

\* ---------------------------------------- the circuit breaker, called alone
\* _record_provider_error(p), lines 291-305
RecordError(p) ==
    /\ pc = "idle"
    /\ calls < MaxBreakerCalls
    /\ calls' = calls + 1
    /\ args' = OtherArgs("record_provider_error", p)
    /\ pre' = Snapshot
    /\ provider_stats' = RecordProviderError(provider_stats, p, now)
    /\ ret' = NoValue
    /\ log' = Append(log, [what |-> "error", p |-> p, time |-> now])
    /\ UNCHANGED <<threads, now, ticks, cache, tokens, last_refill, pc, locals>>

\* _is_provider_healthy(p), lines 276-289
CheckHealthy(p) ==
    /\ pc = "idle"
    /\ calls < MaxBreakerCalls
    /\ calls' = calls + 1
    /\ args' = OtherArgs("is_provider_healthy", p)
    /\ pre' = Snapshot
    /\ provider_stats' = StatsAfterHealthCheck(provider_stats, p, now)
    /\ ret' = [healthy |-> IsProviderHealthy(provider_stats, p, now)]
    /\ log' = Append(log, [what |-> "health", p |-> p, time |-> now,
                           healthy |-> IsProviderHealthy(provider_stats, p, now)])
    /\ UNCHANGED <<threads, now, ticks, cache, tokens, last_refill, pc, locals>>

BreakerProviders == {primary, fallback[1]}
BreakerDeltas == {60, 61}

NextBreaker ==
    \/ \E p \in BreakerProviders : RecordError(p)
    \/ \E p \in BreakerProviders : CheckHealthy(p)
    \/ \E d \in BreakerDeltas : Tick(d)

InitBreaker == InitFresh /\ InitRest

SpecBreaker == InitBreaker /\ [][NextBreaker]_vars

\* ------------------- the circuit breaker of one provider, one error from open
NextHeal ==
    \/ RecordError(primary)
    \/ CheckHealthy(primary)
    \/ \E d \in BreakerDeltas : Tick(d)

SpecHeal == InitWorn /\ [][NextHeal]_vars

\* ==================================================================== claims
\* what the last call was and how it ended
SearchReturned == args.op = "search" /\ pc = "idle"
ReturnedEmptyQuery == SearchReturned /\ DOMAIN ret = {"error", "results"}
ReturnedFailure == SearchReturned /\ DOMAIN ret = {"error", "query", "results"}
ReturnedCached == SearchReturned /\ "cached" \in DOMAIN ret /\ ret.cached
ReturnedFresh == SearchReturned /\ "cached" \in DOMAIN ret /\ ~ret.cached

\* the events of the log that are about provider p and are of the kinds in K
EventsOf(p, K) == {i \in DOMAIN log : log[i].p = p /\ log[i].what \in K}

\* the text the call's query is sanitized to, lower-cased, by the spec's words:
\* dangerous characters dropped, then leading and trailing whitespace
Removable(c) == c \in {"<", ">", "\"", "'", "&", ";", "|", "backquote", "$", " ", "\t", "\n"}
OnlyRemovable(q) == \A i \in DOMAIN q : Removable(q[i])

\* C1: a search whose sanitized query and mode have an entry in the cache that
\* is younger than the TTL of the query's intent (300 s for a trending query)
\* returns at once, cached=true, with that entry's results and provider, and
\* calls no adapter.
C1_CachedWithinTTL ==
    (/\ args.op = "search"
     /\ ~OnlyRemovable(args.query))
    => \A i \in DOMAIN pre.cache :
          (/\ pre.cache[i].key = <<args.search_type, Lower(query)>>
           /\ pre.now - pre.cache[i].timestamp < intent_ttl[DetectQueryIntent(query)])
          => /\ pc = "idle"
             /\ ret = [results |-> pre.cache[i].results,
                       provider |-> pre.cache[i].provider,
                       cached |-> TRUE,
                       query |-> query]
             /\ log = <<>>

\* a trending query is answered from an entry stored 299 s earlier
C1_Witness ==
    /\ ReturnedCached
    /\ DetectQueryIntent(query) = "trending"
    /\ \E i \in DOMAIN pre.cache :
          /\ pre.cache[i].key = <<args.search_type, Lower(query)>>
          /\ pre.now - pre.cache[i].timestamp = 299
          /\ ret.results = pre.cache[i].results

\* C2: a search whose query is empty, blank or made of dangerous characters
\* only returns 'Empty query' with no results, calls no adapter and leaves the
\* cache, the buckets and the breakers as they were.
C2_EmptyQueryRejected ==
    (args.op = "search" /\ OnlyRemovable(args.query))
    => /\ pc = "idle"
       /\ ret = [error |-> "Empty query", results |-> <<>>]
       /\ log = <<>>
       /\ cache = pre.cache
       /\ tokens = pre.tokens
       /\ last_refill = pre.last_refill
       /\ provider_stats = pre.provider_stats

\* a query of dangerous characters and a blank was rejected
C2_Witness ==
    /\ ReturnedEmptyQuery
    /\ args.query = <<"<", " ", ";">>
    /\ ret.error = "Empty query"

\* C3: an exhausted search in which an adapter raised returns the message of
\* the last error an adapter raised.
C3_LastAdapterError ==
    (ReturnedFailure /\ \E i \in DOMAIN log : log[i].what = "raised")
    => /\ ret.results = <<>>
       /\ \E i \in DOMAIN log :
             /\ log[i].what = "raised"
             /\ \A j \in DOMAIN log : j > i => log[j].what # "raised"
             /\ ret.error = AdapterError[log[i].p]

\* C4: in each of the three attempts every provider of the list that the rate
\* limiter grants has its adapter invoked.
C4_AdapterInvokedInEveryAttempt ==
    ReturnedFailure
    => \A a \in 0..(max_attempts - 1), k \in DOMAIN providers :
          \E i \in DOMAIN log :
             /\ log[i].attempt = a
             /\ log[i].p = providers[k]
             /\ log[i].what \in {"denied", "invoked"}

\* C5: after a fresh success the breaker of the provider that answered counts
\* no consecutive errors.
C5_SuccessResetsErrors ==
    ReturnedFresh => Errors(provider_stats, ret.provider) = 0

\* C6: over a search, the error count of each provider grows by the number of
\* its adapter calls that raised.
C6_ErrorsCountAdapterRaises ==
    args.op = "search"
    => \A p \in Providers :
          Errors(provider_stats, p) - Errors(pre.provider_stats, p)
             = Cardinality(EventsOf(p, {"raised"}))

\* the position after position <<a, k>> of the loops, <<max_attempts, 1>> at the end
NextPosition(a, k) == IF k < Len(providers) THEN <<a, k + 1>> ELSE <<a + 1, 1>>
PositionOf(e) == <<e.attempt, CHOOSE k \in DOMAIN providers : providers[k] = e.p>>

\* C9: a provider the rate limiter denies is not invoked in that attempt, has
\* no error recorded for the denial (the error count grows only by the adapter
\* and backoff errors), and the loop goes on with the next provider.
C9_DenialSkipsProvider ==
    args.op = "search"
    => /\ \A i \in DOMAIN log :
             log[i].what = "denied"
             => /\ \A j \in DOMAIN log :
                      ~(/\ log[j].what = "invoked"
                        /\ log[j].attempt = log[i].attempt
                        /\ log[j].p = log[i].p)
                /\ LET nxt == NextPosition(PositionOf(log[i])[1], PositionOf(log[i])[2])
                   IN  IF i < Len(log)
                       THEN PositionOf(log[i + 1]) = nxt
                       ELSE IF nxt[1] < max_attempts
                       THEN pc = "loop" /\ <<attempt, idx>> = nxt
                       ELSE ReturnedFailure
       /\ \A p \in Providers :
             Errors(provider_stats, p) - Errors(pre.provider_stats, p)
                = Cardinality(EventsOf(p, {"raised", "backoff_error"}))

\* brave was denied and google, next in the list, was invoked in the same attempt
C9_Witness ==
    /\ args.op = "search"
    /\ \E i \in DOMAIN log :
          /\ i < Len(log)
          /\ log[i].what = "denied"
          /\ log[i + 1].what = "invoked"
          /\ log[i + 1].attempt = log[i].attempt
          /\ log[i + 1].p # log[i].p
          /\ Errors(provider_stats, log[i].p) = 0

\* the checks of the rate limiter that the log holds
Checks == {i \in DOMAIN log : log[i].what = "check"}

\* the token count of check e after the refill, by the spec's formula
\* min(capacity, tokens + elapsedSeconds * refillRate), in 1/Scale tokens
Refilled(e) ==
    LET grown == e.before + (IF e.since > 0 THEN e.since ELSE 0) * refill_rate[e.p]
    IN  IF grown < rate_max[e.p] THEN grown ELSE rate_max[e.p]

\* C7: every bucket holds between 0 and capacity tokens; a granted check takes
\* exactly one token from the refilled count and a denied check takes none.
C7_TokensWithinCapacity ==
    /\ \A p \in Providers : 0 <= tokens[p] /\ tokens[p] <= rate_max[p]
    /\ \A i \in Checks :
          /\ log[i].granted = (Refilled(log[i]) >= Scale)
          /\ log[i].after = Refilled(log[i]) - (IF log[i].granted THEN Scale ELSE 0)
          /\ 0 <= log[i].after /\ log[i].after <= rate_max[log[i].p]

\* a bucket that was refilled up to its capacity granted a check, and a bucket
\* with less than one token denied one
C7_Witness ==
    /\ \E i \in Checks :
          /\ log[i].granted
          /\ log[i].before < rate_max[log[i].p]
          /\ Refilled(log[i]) = rate_max[log[i].p]
    /\ \E i \in Checks : ~log[i].granted /\ log[i].after = log[i].before

\* the checks of a bucket of rate 1 token/s that found it at 0 tokens, its last
\* refill being `since' seconds ago
EmptyBucketChecks(since) ==
    {i \in Checks : /\ refill_rate[log[i].p] = Scale
                    /\ log[i].before = 0
                    /\ log[i].since \in since}

ImmediatelyAfter(i) ==
    {j \in Checks : j = i + 1 /\ log[j].p = log[i].p /\ log[j].time = log[i].time}

\* C8 as stated: a bucket of rate 1/s at 0 tokens grants a check made 1 s or
\* more after its last refill, and denies one made immediately after that grant.
C8_GrantsOneAfterOneSecond ==
    \A i \in EmptyBucketChecks(1..1000) :
       /\ log[i].granted
       /\ \A j \in ImmediatelyAfter(i) : ~log[j].granted

\* C8 amended: ... a check made at least 1 s and less than 2 s after its last
\* refill ...
C8_GrantsOneWithinTwoSeconds ==
    \A i \in EmptyBucketChecks({1}) :
       /\ log[i].granted
       /\ \A j \in ImmediatelyAfter(i) : ~log[j].granted

\* an empty bucket granted a check after 1 s and denied the next one
C8_Witness ==
    \E i \in EmptyBucketChecks({1}) :
       /\ log[i].granted
       /\ \E j \in ImmediatelyAfter(i) : ~log[j].granted

\* the errors recorded for provider p before position i of the log
ErrorsBefore(p, i) == {j \in 1..(i - 1) : log[j].what = "error" /\ log[j].p = p}
LastOf(S) == CHOOSE j \in S : \A k \in S : k <= j

\* C10: once 5 errors have been recorded for a provider, is_provider_healthy
\* returns false up to 60 s after the last of them, and true from 61 s on.
C10_BreakerOpensAndHeals ==
    \A i \in DOMAIN log :
       (log[i].what = "health" /\ Cardinality(ErrorsBefore(log[i].p, i)) >= 5)
       => LET elapsed == log[i].time - log[LastOf(ErrorsBefore(log[i].p, i))].time
          IN  /\ elapsed <= 60 => ~log[i].healthy
              /\ elapsed >= 61 => log[i].healthy

\* five errors, then 61 s later the provider is healthy again
C10_Witness ==
    \E i \in DOMAIN log :
       /\ log[i].what = "health"
       /\ Cardinality(ErrorsBefore(log[i].p, i)) = 5
       /\ log[i].time - log[LastOf(ErrorsBefore(log[i].p, i))].time = 61
       /\ log[i].healthy

\* the providers whose circuit_open flag is set
OpenBreakers(stats) == {p \in DOMAIN stats : stats[p].circuit_open}

\* C11 as stated: circuit_open is true of a provider only if its error count is
\* 5 or more and fewer than 60 s have passed since circuit_open_time.
C11_OpenOnlyWithinCooldown ==
    \A p \in OpenBreakers(provider_stats) :
       /\ provider_stats[p].errors >= error_threshold
       /\ now - OpenTime(provider_stats[p]) < cooldown

\* C11 amended: circuit_open is true of a provider only if its error count is
\* 5 or more, and _is_provider_healthy answers false only if the flag was set
\* and at most 60 s had passed since circuit_open_time.
C11_OpenOnlyAfterThreshold ==
    /\ \A p \in OpenBreakers(provider_stats) :
          provider_stats[p].errors >= error_threshold
    /\ (args.op = "is_provider_healthy" /\ ~ret.healthy)
          => /\ args.provider \in OpenBreakers(pre.provider_stats)
             /\ args.provider \in OpenBreakers(provider_stats)
             /\ pre.now - OpenTime(pre.provider_stats[args.provider]) <= cooldown

\* a health check made 60 s after the circuit opened answered false, and the
\* flag is still set
C11_Witness ==
    /\ args.op = "is_provider_healthy"
    /\ ~ret.healthy
    /\ args.provider \in OpenBreakers(provider_stats)
    /\ pre.now - OpenTime(pre.provider_stats[args.provider]) = cooldown

\* the last call was a search that went past the cache lookup
SearchMissed == args.op = "search" /\ ~ReturnedEmptyQuery /\ ~ReturnedCached

\* where fallback provider f stands in the configured list
FallbackIndex(f) == CHOOSE k \in DOMAIN fallback : fallback[k] = f

\* the kinds of event that start the turn of a provider, and that end it
TurnStarts == {"denied", "backoff_error", "invoked"}
TurnEnds == {"raised", "empty", "success"}

\* C12: a search given a provider tries that provider only; a search given none
\* tries the primary first and then the fallbacks that _is_provider_healthy
\* reported healthy when the search began, in configured order; the providers
\* are tried one at a time in that order in every attempt, the outcome of one
\* being known before the next is tried.
C12_ProviderOrder ==
    SearchMissed
    => /\ args.provider # None => providers = <<args.provider>>
       /\ args.provider = None
             => /\ providers[1] = primary
                /\ \A k \in 2..Len(providers) :
                      /\ providers[k] \in {fallback[j] : j \in DOMAIN fallback}
                      /\ k > 2 => FallbackIndex(providers[k - 1])
                                     < FallbackIndex(providers[k])
                /\ \A j \in DOMAIN fallback :
                      (\E k \in 2..Len(providers) : providers[k] = fallback[j])
                         <=> IsProviderHealthy(pre.provider_stats, fallback[j], pre.now)
       /\ \A i \in DOMAIN log : \E k \in DOMAIN providers : log[i].p = providers[k]
       /\ log # <<>> => log[1].what \in TurnStarts /\ PositionOf(log[1]) = <<0, 1>>
       /\ \A i \in 1..(Len(log) - 1) :
             IF log[i].what = "invoked"
             THEN /\ log[i + 1].what \in TurnEnds
                  /\ PositionOf(log[i + 1]) = PositionOf(log[i])
             ELSE /\ log[i + 1].what \in TurnStarts
                  /\ PositionOf(log[i + 1])
                        = NextPosition(PositionOf(log[i])[1], PositionOf(log[i])[2])

\* a search given no provider left out google, whose circuit was open, and
\* tried brave and then duckduckgo in its first attempt
C12_Witness ==
    /\ SearchMissed
    /\ args.provider = None
    /\ providers = <<primary, fallback[2]>>
    /\ ~IsProviderHealthy(pre.provider_stats, fallback[1], pre.now)
    /\ \E i, j \in DOMAIN log :
          /\ i < j
          /\ log[i].p = primary /\ log[i].attempt = 0
          /\ log[j].p = fallback[2] /\ log[j].attempt = 0

\* the entries a cache holds, as a set
EntriesOf(c) == {c[i] : i \in 1..Len(c)}
TimestampsOf(S) == {e.timestamp : e \in S}

\* the cache of the last successful search right after its insert (line 238),
\* before _evict_cache was called
Inserted ==
    CachePut(pre.cache, NewEntry(query, args.search_type, ret.results,
                                  ret.provider, pre.now))

\* C13: after a search has stored its result the cache holds at most 1000
\* entries; if the insert made them 1001, exactly 1000 of them are left, and no
\* entry that was dropped is newer than one that was kept.
C13_EvictionKeepsNewest ==
    ReturnedFresh
    => /\ Len(cache) <= max_cache_size
       /\ Len(Inserted) = max_cache_size + 1
             => /\ Len(cache) = max_cache_size
                /\ Cardinality(EntriesOf(cache)) = max_cache_size
                /\ EntriesOf(cache) \subseteq EntriesOf(Inserted)
                /\ \A old \in TimestampsOf(EntriesOf(Inserted) \ EntriesOf(cache)),
                      kept \in TimestampsOf(EntriesOf(cache)) : old <= kept

\* a search stored the 1001st entry: the entry is kept, and an entry of the
\* oldest second was dropped while newer ones were in the cache
C13_Witness ==
    /\ ReturnedFresh
    /\ Len(pre.cache) = max_cache_size
    /\ Len(Inserted) = max_cache_size + 1
    /\ Len(cache) = max_cache_size
    /\ cache[1].key = GetCacheKey(query, args.search_type)
    /\ \E e \in EntriesOf(pre.cache) \ EntriesOf(cache) :
          /\ e.timestamp = 0
          /\ \E k \in EntriesOf(cache) : k.timestamp > 0

\* the TTL the claim gives a lookup with query q of an entry of type t
ClaimedTTL(q, t) ==
    IF q = <<>>
    THEN CASE t = "news" -> 900
           [] t = "trending" -> 300
           [] t = "transactional" -> 1800
           [] OTHER -> 86400
    ELSE IF q \in {<<"N","e","w","s">>, <<"b","u","y"," ","n","e","w","s">>} THEN 300
    ELSE IF q = <<"b","u","y">> THEN 1800
    ELSE 86400

\* C14: _is_cache_valid answers true exactly when the entry's age is less than
\* the TTL: 300 s, 1800 s or 86400 s by the intent of the query when a query is
\* given, whatever the entry's type, and the TTL of the entry's type when none
\* is given.
C14_ValidIffYoungerThanTTL ==
    args.op = "is_cache_valid"
    => ret.valid = (pre.now - pre.cache[1].timestamp
                       < ClaimedTTL(args.query, pre.cache[1].type))

\* an entry of type news, 86399 s old, is valid for an informational query
C14_Witness ==
    /\ args.op = "is_cache_valid"
    /\ args.query = <<"c","a","t">>
    /\ pre.cache[1].type = "news"
    /\ pre.now - pre.cache[1].timestamp = 86399
    /\ ret.valid

\* the threads whose call has been granted since the snapshot pre was taken
GrantedThreads(p) ==
    {t \in Threads : threads[t].p = p /\ threads[t].result = "granted"}

\* C15: with two threads in _check_rate_limit no bucket falls below 0, and the
\* calls made at one reading of the clock are granted no more tokens than the
\* bucket held after its refill.
C15_BucketUpdateIsAtomic ==
    \A p \in Providers :
       /\ tokens[p] >= 0
       /\ args.op = "check_rate_limit"
             => Cardinality(GrantedThreads(p)) * Scale
                   <= Refill(pre.tokens, pre.last_refill, p, pre.now)

\* C16: _sanitize_query returns its own result unchanged.
C16_SanitizeIdempotent ==
    (args.op = "sanitize_query" /\ Len(log) >= 2) => log[2] = log[1]

\* a query longer than max_query_length, with a dangerous character and a blank
\* among its first max_query_length characters, was cut down and sanitized twice
C16_Witness ==
    /\ args.op = "sanitize_query"
    /\ Len(log) >= 2
    /\ Len(args.query) > max_query_length
    /\ \E i, j \in 1..max_query_length : args.query[i] = "<" /\ args.query[j] = " "
    /\ log[1] # <<>>
    /\ Len(log[1]) < max_query_length
    /\ log[2] = log[1]

\* the circuit of provider p is open and its cooldown has not passed
OpenAndCooling(p) ==
    /\ p \in OpenBreakers(provider_stats)
    /\ now - OpenTime(provider_stats[p]) <= cooldown

\* C17: search() calls the adapter of no provider whose circuit is open and
\* whose cooldown has not passed, be it the primary, a fallback or the provider
\* the caller asked for.
C17_OpenBreakerNotInvoked ==
    pc = "call" => ~OpenAndCooling(providers[idx])

\* C18: _is_provider_healthy, called for a provider whose circuit is open and
\* was opened more than 60 s ago, answers true, closes the circuit and leaves
\* the error count as it was; the next error recorded for the provider opens
\* the circuit again, at the time of that error.
C18_HealKeepsErrorCount ==
    LET p == args.provider
    IN  /\ (/\ args.op = "is_provider_healthy"
             /\ p \in OpenBreakers(pre.provider_stats)
             /\ pre.now - OpenTime(pre.provider_stats[p]) > cooldown)
            => /\ ret.healthy
               /\ ~provider_stats[p].circuit_open
               /\ provider_stats[p].errors = pre.provider_stats[p].errors
        /\ (/\ args.op = "record_provider_error"
             /\ Len(log) >= 2
             /\ log[Len(log) - 1].what = "health"
             /\ log[Len(log) - 1].p = p
             /\ log[Len(log) - 1].healthy
             /\ Errors(pre.provider_stats, p) >= error_threshold)
            => /\ p \in OpenBreakers(provider_stats)
               /\ OpenTime(provider_stats[p]) = pre.now
               /\ provider_stats[p].errors = pre.provider_stats[p].errors + 1

\* the circuit opened, was found healed 61 s later, and the one error recorded
\* next has opened it again
C18_Witness ==
    /\ args.op = "record_provider_error"
    /\ Len(log) >= 3
    /\ log[Len(log) - 2].what = "error"
    /\ log[Len(log) - 1].what = "health"
    /\ log[Len(log) - 1].healthy
    /\ log[Len(log) - 1].time - log[Len(log) - 2].time = cooldown + 1
    /\ ~pre.provider_stats[args.provider].circuit_open
    /\ pre.provider_stats[args.provider].errors = error_threshold
    /\ args.provider \in OpenBreakers(provider_stats)
    /\ OpenTime(provider_stats[args.provider]) = now

\* C19: a search answered from the cache leaves the buckets, the refill times,
\* the breakers (error counts and circuit flags) and the cache as they were,
\* and does nothing to any provider.
C19_CacheHitChangesNothing ==
    ReturnedCached
    => /\ tokens = pre.tokens
       /\ last_refill = pre.last_refill
       /\ provider_stats = pre.provider_stats
       /\ cache = pre.cache
       /\ log = <<>>

\* a search was answered from the cache while the circuit of google was open
\* and its cooldown had passed: the circuit is still open
C19_Witness ==
    /\ ReturnedCached
    /\ args.provider = None
    /\ fallback[1] \in OpenBreakers(provider_stats)
    /\ now - OpenTime(provider_stats[fallback[1]]) > cooldown

\* the outcomes of search(), by what it returns
OutcomeEmptyQuery == ret = [error |-> "Empty query", results |-> <<>>]
OutcomeCached ==
    /\ DOMAIN ret = {"results", "provider", "cached", "query"}
    /\ ret.cached
OutcomeFresh ==
    /\ DOMAIN ret = {"results", "provider", "cached", "query"}
    /\ ~ret.cached
    /\ ret.results # <<>>
OutcomeExhausted ==
    /\ DOMAIN ret = {"error", "query", "results"}
    /\ ret.results = <<>>
Outcomes ==
    {o \in {"empty", "cached", "fresh", "exhausted"} :
        \/ o = "empty" /\ OutcomeEmptyQuery
        \/ o = "cached" /\ OutcomeCached
        \/ o = "fresh" /\ OutcomeFresh
        \/ o = "exhausted" /\ OutcomeExhausted}

\* the adapter calls the search has made so far
Invocations == {i \in DOMAIN log : log[i].what = "invoked"}

\* what holds of a search at every step
SearchIsBounded ==
    args.op = "search"
    => /\ attempt < max_attempts
       /\ \A i \in DOMAIN log : log[i].attempt < max_attempts
       /\ log # <<>> => Cardinality(Invocations) <= max_attempts * Len(providers)
       /\ pc = "idle" => Cardinality(Outcomes) = 1

\* C20: every search() returns, with exactly one of the four outcomes, after
\* at most 3 adapter calls per provider of its list, and makes no fourth attempt.
C20_SearchTerminates ==
    /\ []SearchIsBounded
    /\ (args.op = "search" /\ pc # "idle") ~> (args.op = "search" /\ pc = "idle")

\* a search went through all three attempts over its three providers and
\* returned the failure
C20_Witness ==
    /\ ReturnedFailure
    /\ Len(providers) = 3
    /\ \E i \in DOMAIN log : log[i].attempt = max_attempts - 1 /\ log[i].p = providers[3]
    /\ Cardinality(Invocations) = 3
    /\ Outcomes = {"exhausted"}

\* C21: right after a search has returned cached=false the cache holds an
\* entry under the search's key with the results returned.
C21_InsertedEntrySurvives ==
    ReturnedFresh
    => \E i \in DOMAIN cache :
          /\ cache[i].key = GetCacheKey(query, args.search_type)
          /\ cache[i].results = ret.results

\* what holds of the cache in every state reached from an empty cache
CacheHoldsAnswers ==
    /\ (ReturnedEmptyQuery \/ ReturnedFailure) => cache = pre.cache
    /\ (args.op = "search" /\ pc # "idle") => cache = pre.cache
    /\ \A i \in DOMAIN cache :
          /\ cache[i].results # <<>>
          /\ cache[i].provider \in Providers

\* what holds of every step that changes the cache: it empties it, or it is
\* the return of an adapter, and every entry it brings holds the non-empty
\* results returned and names the provider whose adapter was called last
CacheStep ==
    cache' # cache
    => \/ args'.op = "clear_cache" /\ cache' = <<>>
       \/ /\ pc = "call"
          /\ log # <<>>
          /\ log[Len(log)].what = "invoked"
          /\ \A e \in EntriesOf(cache') \ EntriesOf(cache) :
                /\ e.results # <<>>
                /\ e.results = ret'.results
                /\ e.provider = log[Len(log)].p
                /\ e.provider = providers[idx]

\* C22: a search that returns 'Empty query' or the failure, adapters that
\* return no result included, leaves the cache as it was; from an empty cache
\* on, every entry has results and names the provider whose adapter returned them.
C22_OnlyAnswersAreCached ==
    /\ []CacheHoldsAnswers
    /\ [][CacheStep]_vars

\* a search whose adapters returned nothing ended in the failure and left the
\* entry of an earlier search in the cache
C22_Witness ==
    /\ ReturnedFailure
    /\ \E i \in DOMAIN log : log[i].what = "empty"
    /\ cache # <<>>
    /\ cache = pre.cache

====
